---------------------------- MODULE Spec2Model ----------------------------
(***************************************************************************)
(* A model of bitburner-player.                                            *)
(*                                                                         *)
(*   src/src/lib.rs                   main_rs, the playback engine         *)
(*   src/ffmpeg_to_ascii/src/main.rs  the producer                         *)
(*                                                                         *)
(* Three specifications: Spec, main_rs on any file; SpecPipeline, main and *)
(* then main_rs on the text main produced; SpecResolve,                    *)
(* new_target_dimensions over a wide range of sizes.                       *)
(*                                                                         *)
(* Text is a sequence of characters; a character is a one-symbol string,   *)
(* except the three named below.  f64 values are exact rationals (or one   *)
(* of the IEEE specials); the rounding error of f64 arithmetic, below      *)
(* 2^-11 ms at the magnitude of Date.now(), is not modelled.               *)
(***************************************************************************)
EXTENDS Integers, Sequences, FiniteSets, TLC

LF  == "LF"     \* the byte 0x0A
CR  == "CR"     \* the byte 0x0D
BAD == "BAD"    \* a byte sequence that is not valid UTF-8

--------------------------------------------------------------------------
(* Bounds of the model.                                                    *)

MaxLines     == 4   \* lines after the header of a played file
MaxElapsed   == 2   \* ms that pass between two events of the player
MaxOvershoot == 1   \* ms by which the host's sleep may return late
MaxFrames    == 2   \* frames the producer reads from ffmpeg

--------------------------------------------------------------------------
(* Generic helpers on sequences.                                           *)

SeqsUpTo(S, n) == UNION {[1..k -> S] : k \in 0..n}

RECURSIVE Flatten(_)
Flatten(ss) == IF ss = <<>> THEN <<>> ELSE Head(ss) \o Flatten(Tail(ss))

\* Index of the first c in s, or 0.
IndexOf(s, c) ==
    IF \E i \in 1..Len(s) : s[i] = c
    THEN CHOOSE i \in 1..Len(s) : s[i] = c /\ \A j \in 1..(i - 1) : s[j] # c
    ELSE 0

RECURSIVE Pow10(_)
Pow10(n) == IF n = 0 THEN 1 ELSE 10 * Pow10(n - 1)

--------------------------------------------------------------------------
(* Natural numbers of any size, as base-256 digits, least significant      *)
(* first; u32 arithmetic needs them, its products pass 2^31.               *)

RECURSIVE BigOf(_)
BigOf(n) == IF n = 0 THEN <<>> ELSE <<n % 256>> \o BigOf(n \div 256)

RECURSIVE BigTrim(_)
\* Without leading zero digits.
BigTrim(a) ==
    IF a # <<>> /\ a[Len(a)] = 0 THEN BigTrim(SubSeq(a, 1, Len(a) - 1)) ELSE a

Rest(a) == IF a = <<>> THEN <<>> ELSE Tail(a)

Low(a) == IF a = <<>> THEN 0 ELSE a[1]

RECURSIVE BigAddC(_, _, _)
\* a + b + c
BigAddC(a, b, c) ==
    IF a = <<>> /\ b = <<>> THEN BigOf(c)
    ELSE LET s == Low(a) + Low(b) + c
         IN  <<s % 256>> \o BigAddC(Rest(a), Rest(b), s \div 256)

BigAdd(a, b) == BigAddC(a, b, 0)

RECURSIVE BigSubB(_, _, _)
\* a - b - c, for a >= b + c
BigSubB(a, b, c) ==
    IF a = <<>> THEN <<>>
    ELSE LET s == Low(a) - Low(b) - c
         IN  <<s % 256>> \o BigSubB(Rest(a), Rest(b), IF s < 0 THEN 1 ELSE 0)

BigSub(a, b) == BigSubB(a, b, 0)

RECURSIVE BigMulC(_, _, _)
\* a * k + c, for a small k
BigMulC(a, k, c) ==
    IF a = <<>> THEN BigOf(c)
    ELSE LET s == a[1] * k + c
         IN  <<s % 256>> \o BigMulC(Tail(a), k, s \div 256)

RECURSIVE BigMul(_, _)
BigMul(a, b) ==
    IF b = <<>> THEN <<>>
    ELSE BigAdd(BigMulC(a, b[1], 0), <<0>> \o BigMul(a, Tail(b)))

RECURSIVE BigLessT(_, _)
\* a < b, for trimmed a and b of one length
BigLessT(a, b) ==
    IF a = <<>> THEN FALSE
    ELSE LET n == Len(a)
         IN  IF a[n] # b[n] THEN a[n] < b[n]
             ELSE BigLessT(SubSeq(a, 1, n - 1), SubSeq(b, 1, n - 1))

BigLess(a, b) ==
    LET ta == BigTrim(a)
        tb == BigTrim(b)
    IN  IF Len(ta) # Len(tb) THEN Len(ta) < Len(tb) ELSE BigLessT(ta, tb)

BigLeq(a, b) == ~BigLess(b, a)

BigEq(a, b) == BigTrim(a) = BigTrim(b)

RECURSIVE QuotDigit(_, _, _, _)
\* The largest k in lo..hi with k * b <= r, given lo * b <= r.
QuotDigit(r, b, lo, hi) ==
    IF lo = hi THEN lo
    ELSE LET mid == (lo + hi + 1) \div 2
         IN  IF BigLeq(BigMulC(b, mid, 0), r) THEN QuotDigit(r, b, mid, hi)
             ELSE QuotDigit(r, b, lo, mid - 1)

RECURSIVE BigDivMod(_, _)
\* a = q * b + r with r < b, for b # 0
BigDivMod(a, b) ==
    IF a = <<>> THEN [q |-> <<>>, r |-> <<>>]
    ELSE LET hi == BigDivMod(Tail(a), b)
             r0 == <<a[1]>> \o hi.r
             d  == QuotDigit(r0, b, 0, 255)
         IN  [q |-> <<d>> \o hi.q,
              r |-> BigTrim(BigSub(r0, BigMulC(b, d, 0)))]

--------------------------------------------------------------------------
(* u32: the four bytes of the value, least significant first.              *)

\* The low 32 bits of a natural number.
U32Wrap(a) == [i \in 1..4 |-> IF i <= Len(a) THEN a[i] ELSE 0]

\* The u32 of a small number.
U32(n) == U32Wrap(BigOf(n))

U32Max == <<255, 255, 255, 255>>

\* The number of a u32 below 2^31.
U32Val(a) == a[1] + 256 * (a[2] + 256 * (a[3] + 256 * a[4]))

\* a * b in u32: the wrapped product, and whether it overflowed.
U32Mul(a, b) ==
    LET p == BigMul(a, b)
    IN  [overflow |-> Len(BigTrim(p)) > 4, val |-> U32Wrap(p)]

\* a / b in u32, for b # 0.
U32Div(a, b) == U32Wrap(BigDivMod(a, b).q)

--------------------------------------------------------------------------
(* f64 arithmetic: a value is finite (sign, n/d), infinite (sign) or NaN.  *)

F64Fin(neg, n, d) == [cls |-> "fin", neg |-> neg, n |-> n, d |-> d]
F64Inf(neg)       == [cls |-> "inf", neg |-> neg, n |-> 1, d |-> 1]
F64NaN            == [cls |-> "nan", neg |-> FALSE, n |-> 0, d |-> 1]

F64Int(i) == F64Fin(i < 0, IF i < 0 THEN -i ELSE i, 1)

F64Neg(a) == [a EXCEPT !.neg = ~a.neg]

F64Div(a, b) ==
    LET neg == (a.neg # b.neg)
    IN  CASE a.cls = "nan" \/ b.cls = "nan" -> F64NaN
          [] a.cls = "inf" -> IF b.cls = "inf" THEN F64NaN ELSE F64Inf(neg)
          [] b.cls = "inf" -> F64Fin(neg, 0, 1)
          [] b.n = 0       -> IF a.n = 0 THEN F64NaN ELSE F64Inf(neg)
          [] OTHER         -> F64Fin(neg, a.n * b.d, a.d * b.n)

F64Add(a, b) ==
    CASE a.cls = "nan" \/ b.cls = "nan" -> F64NaN
      [] a.cls = "inf" ->
            IF b.cls = "inf" /\ b.neg # a.neg THEN F64NaN ELSE a
      [] b.cls = "inf" -> b
      [] OTHER ->
            LET sa == IF a.neg THEN -a.n ELSE a.n
                sb == IF b.neg THEN -b.n ELSE b.n
                s  == sa * b.d + sb * a.d
            IN  F64Fin(s < 0, IF s < 0 THEN -s ELSE s, a.d * b.d)

F64Sub(a, b) == F64Add(a, F64Neg(b))

\* a < b
F64Less(a, b) ==
    LET d == F64Sub(a, b)
    IN  d.cls # "nan" /\ d.neg /\ d.n > 0

\* f64::round: to the nearest integer, halves away from zero.
F64Round(a) ==
    IF a.cls = "fin" THEN F64Fin(a.neg, (2 * a.n + a.d) \div (2 * a.d), 1)
    ELSE a

\* The cast without the clamp of negative values to 0.
AsU32Magnitude(a) ==
    CASE a.cls = "nan" -> U32(0)
      [] a.cls = "inf" -> U32Max
      [] OTHER         -> U32(a.n \div a.d)

\* `as u32` of an f64: truncates, saturates at 0 and at u32::MAX, NaN is 0.
\* (A finite value of this model never reaches the upper end.)
AsU32(a) ==
    CASE a.cls = "nan" -> U32(0)
      [] a.cls = "inf" -> IF a.neg THEN U32(0) ELSE U32Max
      [] OTHER         -> IF a.neg THEN U32(0) ELSE U32(a.n \div a.d)

\* a == b, as f64 values
F64Eq(a, b) ==
    /\ a.cls = "fin"
    /\ b.cls = "fin"
    /\ a.n * b.d = b.n * a.d
    /\ (a.neg = b.neg \/ a.n = 0)

--------------------------------------------------------------------------
(* The standard library's text functions, as far as the program uses them. *)

Digits == <<"0", "1", "2", "3", "4", "5", "6", "7", "8", "9">>

IsDigit(c) == \E d \in 1..10 : Digits[d] = c

DigitVal(c) == (CHOOSE d \in 1..10 : Digits[d] = c) - 1

RECURSIVE DecVal(_)
\* The value of a string of decimal digits.
DecVal(s) ==
    IF s = <<>> THEN 0
    ELSE 10 * DecVal(SubSeq(s, 1, Len(s) - 1)) + DigitVal(s[Len(s)])

\* str::parse::<u32>: an optional '+', then one or more digits.  (A value
\* above u32::MAX is an error too; the numerals of this model are short.)
ParseU32(s) ==
    LET body == IF s # <<>> /\ s[1] = "+" THEN Tail(s) ELSE s
    IN  IF body = <<>> \/ \E i \in 1..Len(body) : ~IsDigit(body[i])
        THEN [ok |-> FALSE, val |-> 0]
        ELSE [ok |-> TRUE, val |-> DecVal(body)]

\* str::parse::<f64>, forms without exponent: "NaN", "inf" with an optional
\* sign, or an optional sign and digits with at most one '.', at least one
\* digit.
ParseF64(s) ==
    LET neg  == s # <<>> /\ s[1] = "-"
        body == IF s # <<>> /\ s[1] \in {"+", "-"} THEN Tail(s) ELSE s
        dot  == IndexOf(body, ".")
        int  == IF dot = 0 THEN body ELSE SubSeq(body, 1, dot - 1)
        frac == IF dot = 0 THEN <<>> ELSE SubSeq(body, dot + 1, Len(body))
        digs == int \o frac
    IN  IF body = <<"N", "a", "N">> THEN [ok |-> TRUE, val |-> F64NaN]
        ELSE IF body = <<"i", "n", "f">> THEN [ok |-> TRUE, val |-> F64Inf(neg)]
        ELSE IF digs = <<>> \/ \E i \in 1..Len(digs) : ~IsDigit(digs[i])
        THEN [ok |-> FALSE, val |-> F64NaN]
        ELSE [ok |-> TRUE, val |-> F64Fin(neg, DecVal(digs), Pow10(Len(frac)))]

RECURSIVE BigDec(_)
\* The decimal digits of a natural number, none for 0.
BigDec(a) ==
    IF BigTrim(a) = <<>> THEN <<>>
    ELSE LET r == BigDivMod(BigTrim(a), <<10>>)
         IN  BigDec(r.q) \o <<Digits[Low(r.r) + 1]>>

\* Display of a u32.
FmtU32(a) == IF BigTrim(a) = <<>> THEN <<"0">> ELSE BigDec(a)

RECURSIVE FracDigits(_, _, _)
\* The first k decimals of r / d, r < d, up to the last one that is not 0.
FracDigits(r, d, k) ==
    IF r = 0 \/ k = 0 THEN <<>>
    ELSE <<Digits[(10 * r) \div d + 1]>> \o FracDigits((10 * r) % d, d, k - 1)

\* Display of an f64: the shortest decimal form that parses back to the
\* value, no exponent, no fraction for a whole number.  (The values of this
\* model have short decimal forms.)
FmtF64(a) ==
    LET sign == IF a.neg THEN <<"-">> ELSE <<>>
    IN  CASE a.cls = "nan" -> <<"N", "a", "N">>
          [] a.cls = "inf" -> sign \o <<"i", "n", "f">>
          [] OTHER ->
                sign \o FmtU32(BigOf(a.n \div a.d))
                     \o (IF a.n % a.d = 0 THEN <<>>
                         ELSE <<".">> \o FracDigits(a.n % a.d, a.d, 17))

IsSpace(c) == c \in {" ", LF, CR}

RECURSIVE TrimStart(_)
TrimStart(s) == IF s # <<>> /\ IsSpace(s[1]) THEN TrimStart(Tail(s)) ELSE s

RECURSIVE TrimEnd(_)
TrimEnd(s) ==
    IF s # <<>> /\ IsSpace(s[Len(s)]) THEN TrimEnd(SubSeq(s, 1, Len(s) - 1))
    ELSE s

\* str::trim
Trim(s) == TrimEnd(TrimStart(s))

RECURSIVE Split(_, _)
\* str::split(sep): the pieces between the separators, in order.
Split(s, sep) ==
    LET i == IndexOf(s, sep)
    IN  IF i = 0 THEN <<s>>
        ELSE <<SubSeq(s, 1, i - 1)>> \o Split(SubSeq(s, i + 1, Len(s)), sep)

\* One step of BufRead::lines() on the unread text `rest`: the text up to
\* and including the first LF is consumed; the line is that text without
\* its LF, and without a CR before the LF; text that is not UTF-8 is Err.
LinesNext(rest) ==
    LET i    == IndexOf(rest, LF)
        raw  == IF i = 0 THEN rest ELSE SubSeq(rest, 1, i)
        noLF == IF i = 0 THEN raw ELSE SubSeq(raw, 1, Len(raw) - 1)
        line == IF i # 0 /\ noLF # <<>> /\ noLF[Len(noLF)] = CR
                THEN SubSeq(noLF, 1, Len(noLF) - 1) ELSE noLF
    IN  [some |-> rest # <<>>,
         ok   |-> \A j \in 1..Len(raw) : raw[j] # BAD,
         line |-> line,
         rest |-> SubSeq(rest, Len(raw) + 1, Len(rest))]


--------------------------------------------------------------------------
(* The state.                                                              *)

\* src/src/lib.rs, main_rs, and the host it runs in.
VARIABLES
    file,         \* what ns.read returns: [empty, decoded]
    debug_build,  \* the build of main_rs: u32 overflow panics (TRUE) or wraps
    clock,        \* the host's Date.now(), in ms
    host,         \* the calls made on the host so far, in order
    pc,           \* where main_rs stands
    decoder,      \* the unread part of the decompressed text
    framerate,    \* header line 1, an f64
    x, y,         \* header line 2
    buffer,       \* the frame buffer
    line_count,
    first_print,  \* Option<f64>: [some, t]
    frame_count,
    sleep_ms,     \* the duration of the pending ns.sleep
    on_time       \* the host's record: so far every sleep ended exactly when
                  \* due, and every frame's clock was read less than one
                  \* frame period after the frame before it was shown

\* src/ffmpeg_to_ascii/src/main.rs, main, and the processes it runs.
VARIABLES
    args,             \* Args: [target_width, target_height, char_dims]
    overflow_checks,  \* the build: u32 overflow panics (TRUE) or wraps
    main_pc,          \* where main stands
    panic,            \* the panic that ended main, "" if none
    commands,         \* the commands main ran or tried to run, in order
    char_width, char_height,
    width, height,    \* the dimensions of the video
    target_width, target_height,
    main_framerate,   \* `framerate` of main
    encoder,          \* [data: the text written to it, flushed]
    child,            \* the ffmpeg process: "none", "running", "reaped"
    ecode,            \* its exit status: "none", "success", "failure"
    frame_bytes,
    reads,            \* what each stream.read returned: [ok, n]
    emitted,          \* the rendered frames handed to per_file, in order
    pvs_result,       \* what process_video_stream returned, "none" before
    pvf_result        \* what process_video_file returned, "none" before

playerVars == <<file, debug_build, clock, host, pc, decoder, framerate, x, y, buffer,
                line_count, first_print, frame_count, sleep_ms, on_time>>

producerVars == <<args, overflow_checks, main_pc, panic, commands, char_width,
                  char_height, width, height, target_width, target_height,
                  main_framerate, encoder, child, ecode, frame_bytes, reads,
                  emitted, pvs_result, pvf_result>>

vars == <<playerVars, producerVars>>

--------------------------------------------------------------------------
(* The playback engine: src/src/lib.rs, main_rs.                           *)

None    == [some |-> FALSE, t |-> 0]
Some(t) == [some |-> TRUE, t |-> t]

Call(name, arg) == [call |-> name, arg |-> arg]

\* The inputs: header line 1, header line 2 and the following lines.
\* A width whose tenfold is above u32::MAX, one line a frame.
WideDims == <<"4", "2", "9", "4", "9", "6", "7", "3", "0", " ", "1">>

RateTexts == {<<"8", "0", "0">>, <<"0">>}
DimTexts  == {<<"1", " ", "1">>, <<"3", " ", "2">>, <<"2", " ", "0">>, WideDims}
LineTexts == {<<"a">>, <<"b", CR>>, <<BAD>>}

FileText(rate, dims, lines) ==
    rate \o <<LF>> \o dims \o <<LF>>
         \o Flatten([i \in 1..Len(lines) |-> lines[i] \o <<LF>>])

\* Files whose text has no header, half a header or a header that does not
\* parse.
BadHeaderFiles ==
    {[empty |-> FALSE, decoded |-> t] :
        t \in {<<>>,
               <<"8", "0", "0", LF>>,
               <<"x", LF, "1", " ", "1", LF, "a", LF>>,
               <<BAD, LF, "1", " ", "1", LF, "a", LF>>,
               <<"8", "0", "0", LF, "3", LF, "a", LF>>,
               <<"8", "0", "0", LF, "3", " ", "x", LF, "a", LF>>}}

Files ==
    {[empty |-> FALSE, decoded |-> FileText(r, d, ls)] :
        r \in RateTexts, d \in DimTexts, ls \in SeqsUpTo(LineTexts, MaxLines)}
    \cup BadHeaderFiles
    \cup {[empty |-> TRUE, decoded |-> <<>>]}

\* main_rs has not begun: its locals have their first values.
PlayerFresh ==
    /\ clock = 0
    /\ host = <<>>
    /\ decoder = <<>>
    /\ framerate = F64NaN
    /\ x = 0
    /\ y = 0
    /\ buffer = <<>>
    /\ line_count = 0
    /\ first_print = None
    /\ frame_count = 0
    /\ sleep_ms = U32(0)
    /\ on_time = TRUE

\* The host runs main_rs on some file.
PlayerInit ==
    /\ file \in Files
    /\ debug_build \in BOOLEAN
    /\ pc = "start"
    /\ PlayerFresh


\* Lines 64-100: read the file, decode it, read the header.
Start ==
    /\ pc = "start"
    /\ host' = host \o <<Call("disableLog", <<"ALL">>)>>
    /\ LET l1   == LinesNext(file.decoded)
           l2   == LinesNext(l1.rest)
           rate == ParseF64(l1.line)
           dims == Split(l2.line, " ")
           px   == ParseU32(dims[1])
           py   == IF Len(dims) >= 2 THEN ParseU32(dims[2])
                   ELSE [ok |-> FALSE, val |-> 0]
           good == /\ l1.some /\ l1.ok /\ rate.ok
                   /\ l2.some /\ l2.ok /\ px.ok /\ py.ok
       IN  IF file.empty
           THEN /\ pc' = "returned"
                /\ UNCHANGED <<decoder, framerate, x, y>>
           ELSE IF ~good
           THEN /\ pc' = "panicked"
                /\ UNCHANGED <<decoder, framerate, x, y>>
           ELSE /\ pc' = "loop"
                /\ decoder' = l2.rest
                /\ framerate' = rate.val
                /\ x' = px.val
                /\ y' = py.val
    /\ UNCHANGED <<debug_build, file, clock, buffer, line_count, first_print, frame_count,
                   sleep_ms, on_time>>
    /\ UNCHANGED producerVars

\* The test with > for >=.
FrameCompleteLate(count, rows) == count > rows

\* Line 114: the buffer holds a whole frame.
FrameComplete(count, rows) == count >= rows

\* An end of the loop that prints what is left in the buffer.
EndOfStreamFlush ==
    /\ pc' = "done"
    /\ host' = IF buffer = <<>> THEN host
               ELSE host \o <<Call("print", buffer)>>

\* Lines 102 and 141: the iterator is exhausted, the loop and main_rs end.
EndOfStream ==
    /\ pc' = "done"
    /\ host' = host

\* A line that cannot be read is passed over.
LineErrorSkipped ==
    /\ pc' = "loop"
    /\ host' = host

\* Lines 105-108: the error is printed to the terminal and main_rs returns.
LineError ==
    /\ pc' = "failed"
    /\ host' = host \o <<Call("tprint", <<"error">>)>>

\* Lines 102-114: one turn of the for loop, up to the test of line_count.
ReadLine ==
    /\ pc = "loop"
    /\ LET r == LinesNext(decoder)
       IN  IF ~r.some
           THEN /\ EndOfStream
                /\ UNCHANGED <<decoder, buffer, line_count>>
           ELSE IF ~r.ok
           THEN /\ LineError
                /\ decoder' = r.rest
                /\ UNCHANGED <<buffer, line_count>>
           ELSE /\ decoder' = r.rest
                /\ buffer' = buffer \o r.line \o <<LF>>
                /\ line_count' = line_count + 1
                /\ pc' = IF FrameComplete(line_count + 1, y) THEN "pace"
                         ELSE "loop"
                /\ UNCHANGED host
    /\ UNCHANGED <<debug_build, file, clock, framerate, x, y, first_print, frame_count,
                   sleep_ms, on_time>>
    /\ UNCHANGED producerVars

\* One frame period in ms, 1000 / framerate.
Period(rate) == F64Div(F64Int(1000), rate)

\* A target one period after the anchor, whatever the frame.
next_time_one_period(first, count, rate) ==
    F64Add(F64Int(first), F64Div(F64Int(1), F64Div(rate, F64Int(1000))))

\* Line 117.
next_time(first, count, rate) ==
    F64Add(F64Int(first), F64Div(F64Int(count), F64Div(rate, F64Int(1000))))

\* Line 120: the argument of ns.sleep.
SleepArg(first, count, rate, now) ==
    AsU32(F64Round(F64Sub(next_time(first, count, rate), F64Int(now))))

\* An anchor that is not kept.
FirstPrintLost(now) == None

\* Line 124: the anchor, the clock as read at the first complete frame.
FirstPrint(now) == Some(now)

\* Lines 116-125: the clock is read, `e` ms after the previous event; the
\* first frame sets the anchor, a later one asks the host to sleep.
Pace ==
    /\ pc = "pace"
    /\ \E e \in 0..MaxElapsed :
        /\ clock' = clock + e
        /\ IF first_print.some
           THEN /\ sleep_ms' = SleepArg(first_print.t, frame_count, framerate,
                                        clock')
                /\ host' = host \o <<Call("sleep", <<sleep_ms'>>)>>
                /\ on_time' = (on_time /\ F64Less(F64Int(e), Period(framerate)))
                /\ pc' = "sleeping"
                /\ UNCHANGED first_print
           ELSE /\ first_print' = FirstPrint(clock')
                /\ pc' = "display"
                /\ UNCHANGED <<sleep_ms, host, on_time>>
    /\ UNCHANGED <<debug_build, file, decoder, framerate, x, y, buffer, line_count,
                   frame_count>>
    /\ UNCHANGED producerVars

\* Line 120, the await: the host resumes main_rs once the duration has
\* passed, or up to MaxOvershoot ms later.  (A sleep of 2^32 - 1 ms ends
\* after the time this model covers.)
Wake ==
    /\ pc = "sleeping"
    /\ sleep_ms # U32Max
    /\ \E o \in 0..MaxOvershoot :
        /\ clock' = clock + U32Val(sleep_ms) + o
        /\ on_time' = (on_time /\ o = 0)
    /\ pc' = "display"
    /\ UNCHANGED <<debug_build, file, host, decoder, framerate, x, y, buffer, line_count,
                   first_print, frame_count, sleep_ms>>
    /\ UNCHANGED producerVars

\* Lines 130-131: x * 10 in u32.
TailWidth(w) == U32Mul(U32(w), U32(10))

\* Lines 130-131: y * 30 in u32.
TailHeight(h) == U32Mul(U32(h), U32(30))

\* Line 130: y * 30 + 1 in u32.
TailHeightPlus(h) == U32Wrap(BigAdd(TailHeight(h).val, <<1>>))

\* Line 130: one of x * 10, y * 30, y * 30 + 1 is above u32::MAX.
ResizeOverflows(w, h) ==
    \/ TailWidth(w).overflow
    \/ TailHeight(h).overflow
    \/ TailHeight(h).val = U32Max

\* Lines 128-136: the host calls that display one frame.
DisplayCalls(text, w, h, n) ==
    <<Call("clearLog", <<>>),
      Call("print", text),
      Call("resizeTail", <<TailWidth(w).val, TailHeightPlus(h)>>),
      Call("resizeTail", <<TailWidth(w).val, TailHeight(h).val>>),
      Call("tprint", <<"frame", n>>)>>

\* Lines 128-138.  In a build with overflow checks the arithmetic of line
\* 130 panics when it overflows, after the print and before any resize.
Display ==
    /\ pc = "display"
    /\ IF debug_build /\ ResizeOverflows(x, y)
       THEN /\ host' = host \o SubSeq(DisplayCalls(buffer, x, y, frame_count),
                                      1, 2)
            /\ pc' = "panicked at 130"
            /\ UNCHANGED <<buffer, frame_count, line_count>>
       ELSE /\ host' = host \o DisplayCalls(buffer, x, y, frame_count)
            /\ buffer' = <<>>
            /\ frame_count' = frame_count + 1
            /\ line_count' = 0
            /\ pc' = "loop"
    /\ UNCHANGED <<debug_build, file, clock, decoder, framerate, x, y,
                   first_print, sleep_ms, on_time>>
    /\ UNCHANGED producerVars

PlayerNext == Start \/ ReadLine \/ Pace \/ Wake \/ Display

--------------------------------------------------------------------------
(* The producer: src/ffmpeg_to_ascii/src/main.rs.                          *)

NoU32 == [some |-> FALSE, t |-> U32(0)]

NoText == [some |-> FALSE, t |-> <<>>]

\* What the command line can give.
WidthArgs == {NoU32, Some(U32(0)), Some(U32(1))}

HeightArgs == {NoU32, Some(U32(0)), Some(U32(2))}

CharDimArgs == {NoText, Some(<<"1", "x", "2">>), Some(<<"x">>)}

\* What running ffprobe can give: it cannot be started, or it ends with a
\* status and this text on its stdout.
Probe(spawn, success, stdout) ==
    [spawn |-> spawn, success |-> success, stdout |-> stdout]

DimProbes ==
    {Probe(FALSE, FALSE, <<>>), Probe(TRUE, FALSE, <<>>)}
    \cup {Probe(TRUE, TRUE, t) :
            t \in {<<"4", ",", "2", LF>>, <<"4", LF>>, <<"x", ",", "2", LF>>,
                   <<"4", ",", "x", LF>>, <<BAD>>}}

FpsProbes ==
    {Probe(FALSE, FALSE, <<>>), Probe(TRUE, FALSE, <<>>)}
    \cup {Probe(TRUE, TRUE, t) :
            t \in {<<"2", "5", "/", "2", LF>>, <<"3", "0", "/", "1", LF>>,
                   <<"3", "0", LF>>}}

\* The glyphs a rendered frame is made of.
Glyphs == {"a", "b"}

\* main has not begun.
ProducerFresh ==
    /\ panic = ""
    /\ commands = <<>>
    /\ char_width = U32(0)
    /\ char_height = U32(0)
    /\ width = U32(0)
    /\ height = U32(0)
    /\ target_width = U32(0)
    /\ target_height = U32(0)
    /\ main_framerate = F64NaN
    /\ encoder = [data |-> <<>>, flushed |-> FALSE]
    /\ child = "none"
    /\ ecode = "none"
    /\ frame_bytes = U32(0)
    /\ reads = <<>>
    /\ emitted = <<>>
    /\ pvs_result = "none"
    /\ pvf_result = "none"

\* Line 252: the arguments are parsed.
ProducerInit ==
    /\ args \in [target_width : WidthArgs, target_height : HeightArgs,
                 char_dims : CharDimArgs]
    /\ overflow_checks \in BOOLEAN
    /\ main_pc = "main"
    /\ ProducerFresh

\* The checks of lines 254-260 alone.
ArgsPanicNoPresence(a) ==
    IF a.target_width.some /\ a.target_width.t = U32(0)
    THEN "target_width cannot be zero"
    ELSE IF a.target_height.some /\ a.target_height.t = U32(0)
    THEN "target_height cannot be zero"
    ELSE ""

\* Lines 254-264: the panic of main's checks of its arguments, "" if none.
ArgsPanic(a) ==
    IF a.target_width.some /\ a.target_width.t = U32(0)
    THEN "target_width cannot be zero"
    ELSE IF a.target_height.some /\ a.target_height.t = U32(0)
    THEN "target_height cannot be zero"
    ELSE IF ~a.target_width.some /\ ~a.target_height.some
    THEN "must set either target_width or target_height"
    ELSE ""

\* Lines 254-264.
Validate ==
    /\ main_pc = "main"
    /\ panic' = ArgsPanic(args)
    /\ main_pc' = IF panic' # "" THEN "panicked" ELSE "get_char_dims"
    /\ UNCHANGED <<args, overflow_checks, commands, char_width, char_height,
                   width, height, target_width, target_height,
                   main_framerate, encoder, child, ecode, frame_bytes,
                   reads, emitted, pvs_result, pvf_result>>
    /\ UNCHANGED playerVars

\* Lines 210-229.
get_char_dims(char_string) ==
    LET iter == Split(char_string.t, "x")
        w    == ParseU32(iter[1])
        h    == IF Len(iter) >= 2 THEN ParseU32(iter[2])
                ELSE [ok |-> FALSE, val |-> 0]
    IN  IF ~char_string.some THEN [ok |-> TRUE, w |-> U32(1), h |-> U32(1)]
        ELSE IF w.ok /\ h.ok THEN [ok |-> TRUE, w |-> U32(w.val), h |-> U32(h.val)]
        ELSE [ok |-> FALSE, w |-> U32(0), h |-> U32(0)]

\* Line 266.
GetCharDims ==
    /\ main_pc = "get_char_dims"
    /\ LET r == get_char_dims(args.char_dims)
       IN  IF r.ok
           THEN /\ char_width' = r.w
                /\ char_height' = r.h
                /\ main_pc' = "get_video_dimensions"
                /\ panic' = panic
           ELSE /\ main_pc' = "panicked"
                /\ panic' = "unwrap at 266"
                /\ UNCHANGED <<char_width, char_height>>
    /\ UNCHANGED <<args, overflow_checks, commands, width, height,
                   target_width, target_height, main_framerate, encoder,
                   child, ecode, frame_bytes, reads, emitted, pvs_result,
                   pvf_result>>
    /\ UNCHANGED playerVars

\* Lines 21-67, on what ffprobe gave: a panic inside, an Err, or Ok(w, h).
get_video_dimensions(probe) ==
    LET v   == Split(Trim(probe.stdout), ",")
        w   == ParseU32(v[1])
        h   == IF Len(v) >= 2 THEN ParseU32(v[2]) ELSE [ok |-> FALSE, val |-> 0]
        Out(p, e, a, b) == [panic |-> p, err |-> e, w |-> U32(a), h |-> U32(b)]
    IN  IF ~probe.spawn THEN Out("", "ffprobe not started", 0, 0)
        ELSE IF ~probe.success THEN Out("", "Error executing ffprobe", 0, 0)
        ELSE IF \E i \in 1..Len(probe.stdout) : probe.stdout[i] = BAD
        THEN Out("unwrap at 46", "", 0, 0)
        ELSE IF Len(v) # 2 THEN Out("", "Invalid file or video channel", 0, 0)
        ELSE IF ~w.ok THEN Out("unwrap at 61", "", 0, 0)
        ELSE IF ~h.ok THEN Out("", "Error parsing height", 0, 0)
        ELSE Out("", "", w.val, h.val)

\* Line 268.
GetVideoDimensions ==
    /\ main_pc = "get_video_dimensions"
    /\ commands' = Append(commands, "ffprobe")
    /\ \E probe \in DimProbes :
        LET r == get_video_dimensions(probe)
        IN  IF r.panic = "" /\ r.err = ""
            THEN /\ width' = r.w
                 /\ height' = r.h
                 /\ main_pc' = "new_target_dimensions"
                 /\ panic' = panic
            ELSE /\ main_pc' = "panicked"
                 /\ panic' = IF r.panic # "" THEN r.panic ELSE "unwrap at 268"
                 /\ UNCHANGED <<width, height>>
    /\ UNCHANGED <<args, overflow_checks, char_width, char_height,
                   target_width, target_height, main_framerate, encoder,
                   child, ecode, frame_bytes, reads, emitted, pvs_result,
                   pvf_result>>
    /\ UNCHANGED playerVars

\* a * b in u32 as the build computes it: a panic, or the wrapped product.
Mul(a, b, checks) ==
    LET m == U32Mul(a, b)
    IN  IF m.overflow /\ checks
        THEN [panic |-> "attempt to multiply with overflow", val |-> U32(0)]
        ELSE [panic |-> "", val |-> m.val]

\* Lines 200 and 203: a * d * ch / (b * cw), evaluated left to right.
Scaled(a, d, ch, b, cw, checks) ==
    LET m1 == Mul(a, d, checks)
        m2 == Mul(m1.val, ch, checks)
        dv == Mul(b, cw, checks)
    IN  IF m1.panic # "" THEN m1
        ELSE IF m2.panic # "" THEN m2
        ELSE IF dv.panic # "" THEN dv
        ELSE IF dv.val = U32(0)
        THEN [panic |-> "attempt to divide by zero", val |-> U32(0)]
        ELSE [panic |-> "", val |-> U32Div(m2.val, dv.val)]

\* Lines 184-208.
new_target_dimensions(src_width, src_height, cw, ch, dest_width, dest_height, checks) ==
    LET byW == Scaled(src_height, dest_width.t, ch, src_width, cw, checks)
        byH == Scaled(src_width, dest_height.t, ch, src_height, cw, checks)
    IN  IF dest_width.some /\ dest_height.some
        THEN [panic |-> "", w |-> dest_width.t, h |-> dest_height.t]
        ELSE IF dest_width.some
        THEN [panic |-> byW.panic, w |-> dest_width.t, h |-> byW.val]
        ELSE IF dest_height.some
        THEN [panic |-> byH.panic, w |-> byH.val, h |-> dest_height.t]
        ELSE [panic |-> "unreachable", w |-> U32(0), h |-> U32(0)]

\* Lines 269-275.
NewTargetDimensions ==
    /\ main_pc = "new_target_dimensions"
    /\ LET r == new_target_dimensions(width, height, char_width, char_height,
                                      args.target_width, args.target_height,
                                      overflow_checks)
       IN  IF r.panic = ""
           THEN /\ target_width' = r.w
                /\ target_height' = r.h
                /\ main_pc' = "get_video_fps"
                /\ panic' = panic
           ELSE /\ main_pc' = "panicked"
                /\ panic' = r.panic
                /\ UNCHANGED <<target_width, target_height>>
    /\ UNCHANGED <<args, overflow_checks, commands, char_width, char_height,
                   width, height, main_framerate, encoder, child, ecode,
                   frame_bytes, reads, emitted, pvs_result, pvf_result>>
    /\ UNCHANGED playerVars

\* Lines 69-92, on what ffprobe gave: an Err, or Ok(rate).
get_video_fps(probe) ==
    LET frame_rate  == Split(Trim(probe.stdout), "/")
        numerator   == ParseF64(frame_rate[1])
        denominator == IF Len(frame_rate) >= 2 THEN ParseF64(frame_rate[2])
                       ELSE [ok |-> FALSE, val |-> F64NaN]
    IN  IF ~probe.spawn THEN [err |-> "ffprobe not started", val |-> F64NaN]
        ELSE IF ~probe.success
        THEN [err |-> "ffprobe command failed", val |-> F64NaN]
        ELSE IF ~numerator.ok \/ ~denominator.ok
        THEN [err |-> "failed to parse frame rate", val |-> F64NaN]
        ELSE [err |-> "", val |-> F64Div(numerator.val, denominator.val)]

\* Line 277.
GetVideoFps ==
    /\ main_pc = "get_video_fps"
    /\ commands' = Append(commands, "ffprobe")
    /\ \E probe \in FpsProbes :
        LET r == get_video_fps(probe)
        IN  IF r.err = ""
            THEN /\ main_framerate' = r.val
                 /\ main_pc' = "header"
                 /\ panic' = panic
            ELSE /\ main_pc' = "panicked"
                 /\ panic' = "unwrap at 277"
                 /\ UNCHANGED main_framerate
    /\ UNCHANGED <<args, overflow_checks, char_width, char_height, width,
                   height, target_width, target_height, encoder, child,
                   ecode, frame_bytes, reads, emitted, pvs_result,
                   pvf_result>>
    /\ UNCHANGED playerVars

\* Lines 282-283: the two lines of the header.
Header(rate, w, h) ==
    FmtF64(rate) \o <<LF>> \o FmtU32(w) \o <<" ">> \o FmtU32(h) \o <<LF>>

\* Lines 280-283: the encoder is built and given the header.
WriteHeader ==
    /\ main_pc = "header"
    /\ encoder' = [data    |-> Header(main_framerate, target_width,
                                      target_height),
                   flushed |-> FALSE]
    /\ main_pc' = "process_video_file"
    /\ UNCHANGED <<args, overflow_checks, panic, commands, char_width,
                   char_height, width, height, target_width, target_height,
                   main_framerate, child, ecode, frame_bytes, reads,
                   emitted, pvs_result, pvf_result>>
    /\ UNCHANGED playerVars

\* Lines 104-116, and 292 when ffmpeg cannot be started.  (Its stdout is
\* piped, so child.stdout is there and lines 123-128 are never run.)
SpawnFfmpeg ==
    /\ main_pc = "process_video_file"
    /\ commands' = Append(commands, "ffmpeg")
    /\ \E started \in BOOLEAN :
        IF started
        THEN /\ child' = "running"
             /\ main_pc' = "process_video_stream"
             /\ UNCHANGED <<pvf_result, panic>>
        ELSE /\ pvf_result' = "ffmpeg not started"
             /\ main_pc' = "panicked"
             /\ panic' = "unwrap at 292"
             /\ child' = child
    /\ UNCHANGED <<args, overflow_checks, char_width, char_height, width,
                   height, target_width, target_height, main_framerate,
                   encoder, ecode, frame_bytes, reads, emitted, pvs_result>>
    /\ UNCHANGED playerVars

\* Lines 149-153.
BeginStream ==
    /\ main_pc = "process_video_stream"
    /\ LET frame_pixels == Mul(target_width, target_height, overflow_checks)
           bytes        == Mul(frame_pixels.val, U32(4), overflow_checks)
       IN  IF frame_pixels.panic # "" \/ bytes.panic # ""
           THEN /\ main_pc' = "panicked"
                /\ panic' = "attempt to multiply with overflow"
                /\ UNCHANGED frame_bytes
           ELSE /\ frame_bytes' = bytes.val
                /\ main_pc' = "stream"
                /\ panic' = panic
    /\ UNCHANGED <<args, overflow_checks, commands, char_width, char_height,
                   width, height, target_width, target_height,
                   main_framerate, encoder, child, ecode, reads, emitted,
                   pvs_result, pvf_result>>
    /\ UNCHANGED playerVars

\* Line 157: what a read into a buffer of `size` bytes can return: an
\* error, or the number of bytes read, 0 to size.
ReadResults(size) ==
    {[ok |-> FALSE, n |-> U32(0)]}
    \cup {[ok |-> TRUE, n |-> c] :
            c \in {U32(0), size}
                  \cup (IF size = U32(0) THEN {} ELSE {U32(1)})}

\* Lines 168-175: the text of a frame of w by h characters, h lines of w
\* glyphs.
Render(w, h, g) ==
    Flatten([i \in 1..U32Val(h) |-> [j \in 1..U32Val(w) |-> g] \o <<LF>>])

\* Lines 154-179: one turn of the loop of process_video_stream; and 120
\* and 292 when it returns an Err.
ReadFrame ==
    /\ main_pc = "stream"
    /\ \E r \in ReadResults(frame_bytes), g \in Glyphs :
        /\ (r.ok /\ r.n = frame_bytes) => Len(emitted) < MaxFrames
        /\ reads' = Append(reads, r)
        /\ IF ~r.ok
           THEN /\ main_pc' = "panicked"
                /\ panic' = "unwrap at 157"
                /\ UNCHANGED <<emitted, encoder, pvs_result, pvf_result>>
           ELSE IF r.n = frame_bytes
           THEN IF BigLess(frame_bytes,
                           BigMulC(BigMul(target_width, target_height), 4, 0))
                THEN /\ main_pc' = "panicked"
                     /\ panic' = "unwrap at 169"
                     /\ UNCHANGED <<emitted, encoder, pvs_result, pvf_result>>
                ELSE /\ emitted' = Append(emitted, Render(target_width,
                                                          target_height, g))
                     /\ encoder' = [encoder EXCEPT
                                      !.data = @ \o Render(target_width,
                                                           target_height, g)]
                     /\ UNCHANGED <<main_pc, panic, pvs_result, pvf_result>>
           ELSE IF r.n = U32(0)
           THEN /\ pvs_result' = "Ok"
                /\ main_pc' = "wait"
                /\ UNCHANGED <<emitted, encoder, panic, pvf_result>>
           ELSE /\ pvs_result' = "UnexpectedEof"
                /\ pvf_result' = "UnexpectedEof"
                /\ main_pc' = "panicked"
                /\ panic' = "unwrap at 292"
                /\ UNCHANGED <<emitted, encoder>>
    /\ UNCHANGED <<args, overflow_checks, commands, char_width, char_height,
                   width, height, target_width, target_height,
                   main_framerate, child, ecode, frame_bytes>>
    /\ UNCHANGED playerVars

\* A result that does not look at the status.
ExitResultIgnored(status) == "Ok"

\* Lines 132-139: what process_video_file returns after a wait that gave
\* `status`.
ExitResult(status) ==
    IF status = "success" THEN "Ok" ELSE "ffmpeg command failed"

\* Lines 130-139, and 292: the child is waited for.
WaitChild ==
    /\ main_pc = "wait"
    /\ \E w \in {"success", "failure", "error"} :
        IF w = "error"
        THEN /\ pvf_result' = "wait failed"
             /\ UNCHANGED <<child, ecode>>
        ELSE /\ child' = "reaped"
             /\ ecode' = w
             /\ pvf_result' = ExitResult(w)
    /\ main_pc' = IF pvf_result' = "Ok" THEN "flush" ELSE "panicked"
    /\ panic' = IF pvf_result' = "Ok" THEN panic ELSE "unwrap at 292"
    /\ UNCHANGED <<args, overflow_checks, commands, char_width, char_height,
                   width, height, target_width, target_height,
                   main_framerate, encoder, frame_bytes, reads, emitted,
                   pvs_result>>
    /\ UNCHANGED playerVars

\* Line 300, and the end of main.
Flush ==
    /\ main_pc = "flush"
    /\ encoder' = [encoder EXCEPT !.flushed = TRUE]
    /\ main_pc' = "exited"
    /\ UNCHANGED <<args, overflow_checks, panic, commands, char_width,
                   char_height, width, height, target_width, target_height,
                   main_framerate, child, ecode, frame_bytes, reads,
                   emitted, pvs_result, pvf_result>>
    /\ UNCHANGED playerVars

ProducerNext ==
    \/ Validate
    \/ GetCharDims
    \/ GetVideoDimensions
    \/ NewTargetDimensions
    \/ GetVideoFps
    \/ WriteHeader
    \/ SpawnFfmpeg
    \/ BeginStream
    \/ ReadFrame
    \/ WaitChild
    \/ Flush

--------------------------------------------------------------------------
(* The specifications.                                                     *)

\* The producer is not run.
ProducerOff ==
    /\ args = [target_width |-> NoU32, target_height |-> NoU32,
               char_dims |-> NoText]
    /\ overflow_checks = FALSE
    /\ main_pc = "off"
    /\ ProducerFresh

\* The player is not run yet.
PlayerOff ==
    /\ file = [empty |-> TRUE, decoded |-> <<>>]
    /\ debug_build \in BOOLEAN
    /\ pc = "off"
    /\ PlayerFresh

\* The text main gave its encoder is what main_rs's decoder yields: the
\* LZ4 frame and its base64 form are the work of crates outside src, taken
\* as lossless.  main has ended, by returning or by a panic.
Handoff ==
    /\ main_pc \in {"exited", "panicked"}
    /\ encoder.data # <<>>
    /\ pc = "off"
    /\ file' = [empty |-> FALSE, decoded |-> encoder.data]
    /\ pc' = "start"
    /\ UNCHANGED <<debug_build, clock, host, decoder, framerate, x, y, buffer,
                   line_count, first_print, frame_count, sleep_ms, on_time>>
    /\ UNCHANGED producerVars

\* The player on any file.
Init == PlayerInit /\ ProducerOff

Next == PlayerNext

Spec == Init /\ [][Next]_vars

\* The producer, and then the player on what it produced.
InitPipeline == ProducerInit /\ PlayerOff

NextPipeline == ProducerNext \/ Handoff \/ PlayerNext

SpecPipeline == InitPipeline /\ [][NextPipeline]_vars


\* new_target_dimensions on its own, over a wide range of inputs: main at
\* line 269, with arguments that passed its checks, the character size its
\* argument gave and the size ffprobe reported.
ResolveDims == {NoU32, Some(U32(1)), Some(U32(80)), Some(U32(65536))}

ResolveCharDims ==
    {NoText, Some(<<"1", "x", "2">>), Some(<<"2", "x", "1">>),
     Some(<<"0", "x", "1">>)}

ResolveSizes == {U32(0), U32(1), U32(2), U32(1080), U32(1920), U32(65536)}

InitResolve ==
    /\ args \in {a \in [target_width : ResolveDims, target_height : ResolveDims,
                        char_dims : ResolveCharDims] : ArgsPanic(a) = ""}
    /\ overflow_checks \in BOOLEAN
    /\ main_pc = "new_target_dimensions"
    /\ panic = ""
    /\ commands = <<"ffprobe">>
    /\ char_width = get_char_dims(args.char_dims).w
    /\ char_height = get_char_dims(args.char_dims).h
    /\ width \in ResolveSizes
    /\ height \in ResolveSizes
    /\ target_width = U32(0)
    /\ target_height = U32(0)
    /\ main_framerate = F64NaN
    /\ encoder = [data |-> <<>>, flushed |-> FALSE]
    /\ child = "none"
    /\ ecode = "none"
    /\ frame_bytes = U32(0)
    /\ reads = <<>>
    /\ emitted = <<>>
    /\ pvs_result = "none"
    /\ pvf_result = "none"
    /\ PlayerOff

NextResolve == NewTargetDimensions

SpecResolve == InitResolve /\ [][NextResolve]_vars

--------------------------------------------------------------------------
(* Playback: what the claims speak of.                                     *)

\* The text after the two header lines.
PostHeader == LinesNext(LinesNext(file.decoded).rest).rest

RECURSIVE AllLines(_)
\* Every item the line iterator yields for a text.
AllLines(text) ==
    LET r == LinesNext(text)
    IN  IF ~r.some THEN <<>> ELSE <<r>> \o AllLines(r.rest)

AllOk(ls) == \A i \in 1..Len(ls) : ls[i].ok

\* Lines k*h+1 .. k*h+h, each with its newline (k from 0).
FrameOf(ls, h, k) == Flatten([i \in 1..h |-> ls[k * h + i].line \o <<LF>>])

CallsOf(name) == SelectSeq(host, LAMBDA e : e.call = name)

Printed == CallsOf("print")

RECURSIVE CountLF(_)
CountLF(s) ==
    IF s = <<>> THEN 0
    ELSE (IF Head(s) = LF THEN 1 ELSE 0) + CountLF(Tail(s))

Playing == pc \in {"loop", "pace", "sleeping", "display", "done", "failed"}

C2_TrailingPartialDiscarded ==
    /\ [](LET ls == AllLines(PostHeader)
          IN  (pc = "done" /\ 0 < line_count /\ line_count < y) =>
                /\ Len(Printed) * y + line_count = Len(ls)
                /\ \A k \in 1..Len(Printed) :
                      /\ Printed[k].arg = FrameOf(ls, y, k - 1)
                      /\ CountLF(Printed[k].arg) = y
                /\ \A i \in 1..Len(host) :
                      host[i].call = "tprint" => host[i].arg[1] = "frame")
    /\ [][(pc = "loop" /\ decoder = <<>> /\ 0 < line_count) =>
            (pc' = "done" /\ host' = host)]_vars

\* The loop ended with one line of a two-line frame in the buffer, after
\* one complete frame.
C2_Witness ==
    /\ pc = "done"
    /\ y = 2
    /\ line_count = 1
    /\ Len(Printed) = 1

\* The delay to frame frame_count's target, anchor + n * 1000 / framerate
\* - now, is vnum / framerate.n ms for a frame rate framerate.n /
\* framerate.d >= 0; RoundedWait says the pending sleep is that delay, or
\* 0 if it is negative, rounded to the nearest whole ms (halves up).
DelayNum ==
    (first_print.t - clock) * framerate.n + frame_count * 1000 * framerate.d

RoundedWait ==
    LET ms == U32Val(sleep_ms)
    IN  /\ sleep_ms # U32Max
        /\ DelayNum <= 0 => ms = 0
        /\ DelayNum > 0 =>
              /\ 2 * ms * framerate.n <= 2 * DelayNum + framerate.n
              /\ 2 * DelayNum + framerate.n < 2 * (ms + 1) * framerate.n

\* C4 as stated: the duration of every sleep is max(anchor + n * 1000 /
\* frameRate - now, 0) rounded to whole milliseconds.
C4_AsStated == pc = "sleeping" => RoundedWait

\* C4, amended: a sleep is requested only for a frame n >= 1, with the
\* anchor set; its duration is max(anchor + n * 1000 / frameRate - now, 0)
\* rounded to whole milliseconds, never negative and 0 when the frame is
\* late, saturated at 2^32 - 1 ms: that is what is requested when the
\* frame rate is 0 and the target infinitely far.
C4_PacingWait ==
    pc = "sleeping" =>
        /\ frame_count >= 1
        /\ first_print.some
        /\ host[Len(host)] = Call("sleep", <<sleep_ms>>)
        /\ IF framerate.n = 0 THEN sleep_ms = U32Max ELSE RoundedWait

\* Frame 1 was late and slept 0 ms; frame 2 is asked to wait.
C4_Witness ==
    /\ pc = "sleeping"
    /\ frame_count = 2
    /\ sleep_ms # U32Max /\ sleep_ms # U32(0)
    /\ \E i \in 1..(Len(host) - 1) :
          host[i].call = "sleep" /\ host[i].arg = <<U32(0)>>

\* 2 * framerate.n * (time since the anchor - n frame periods): twice the
\* lateness of the frame being displayed, in units of 1 / framerate.n ms.
Lateness2 ==
    2 * ((clock - first_print.t) * framerate.n
         - frame_count * 1000 * framerate.d)

\* C5 as stated: with exact sleeps and less than one period of work per
\* frame, frame n >= 1 is displayed no earlier than anchor + n * period and
\* no later than that plus rounding (1/2 ms) and one frame's overhead (one
\* period).
C5_AsStated ==
    (pc = "display" /\ frame_count >= 1 /\ on_time /\ framerate.n > 0) =>
        /\ Lateness2 >= 0
        /\ Lateness2 <= framerate.n + 2 * 1000 * framerate.d

\* C5, amended: with exact sleeps and less than one period of work per
\* frame, frame n >= 1 is displayed within 1/2 ms of anchor + n * period,
\* before it or after it (the wait is rounded to the nearest whole ms, so
\* a frame can be up to 1/2 ms early); the bound does not grow with n.
C5_NoDrift ==
    (pc = "display" /\ frame_count >= 1 /\ on_time /\ framerate.n > 0) =>
        /\ Lateness2 >= -framerate.n
        /\ Lateness2 <= framerate.n

\* Frame 3 is displayed, every sleep so far was exact and every frame
\* quick, and some earlier frame had used up its whole period (slept 0).
C5_Witness ==
    /\ pc = "display"
    /\ frame_count = 3
    /\ on_time
    /\ framerate.n > 0
    /\ \E i \in 1..Len(host) :
          host[i].call = "sleep" /\ host[i].arg = <<U32(0)>>

--------------------------------------------------------------------------
(* Production: what the claims speak of.                                   *)

\* C3 as stated: once the player has read to the end of the text the
\* producer gave its encoder, the header values it read are the producer's
\* frame rate, width and height, and the frames it displayed are the frames
\* the producer rendered: as many, in that order, with the same text.
C3_AsStated ==
    pc = "done" =>
        /\ F64Eq(framerate, main_framerate)
        /\ x = U32Val(target_width)
        /\ y = U32Val(target_height)
        /\ Len(Printed) = Len(emitted)
        /\ \A k \in 1..Len(Printed) : k <= Len(emitted) =>
              Printed[k].arg = emitted[k]

\* width * height * 4, the size of a frame in bytes.
FrameSize == BigMulC(BigMul(target_width, target_height), 4, 0)

\* C6 as stated: every read that returns a byte count has the outcome of
\* its count: width * height * 4 bytes, one more frame is emitted and the
\* loop goes on; 0 bytes, process_video_stream returns Ok, with no frame
\* emitted and no further read; any other count, it returns UnexpectedEof,
\* with no frame emitted and no further read.
C6_AsStated ==
    [][(reads' # reads /\ reads'[Len(reads')].ok) =>
          LET n == reads'[Len(reads')].n
          IN  /\ BigEq(n, FrameSize) =>
                    /\ Len(emitted') = Len(emitted) + 1
                    /\ SubSeq(emitted', 1, Len(emitted)) = emitted
                    /\ main_pc' = "stream"
                    /\ pvs_result' = "none"
              /\ n = U32(0) =>
                    /\ pvs_result' = "Ok"
                    /\ emitted' = emitted
                    /\ main_pc' # "stream"
              /\ (~BigEq(n, FrameSize) /\ n # U32(0)) =>
                    /\ pvs_result' = "UnexpectedEof"
                    /\ emitted' = emitted
                    /\ main_pc' # "stream"]_vars

\* C7: when process_video_stream returned Ok and ffmpeg then ended with a
\* status that is not success, process_video_file returns an Err; it
\* returns Ok only when process_video_stream returned Ok, the child was
\* waited for and its status is success.
C7_ExitStatusSurfaced ==
    /\ (pvs_result = "Ok" /\ ecode = "failure") =>
          pvf_result = "ffmpeg command failed"
    /\ pvf_result = "Ok" =>
          /\ pvs_result = "Ok"
          /\ child = "reaped"
          /\ ecode = "success"

\* A frame was read, the stream ended cleanly, ffmpeg failed, and
\* process_video_file returned the Err.
C7_Witness ==
    /\ pvs_result = "Ok"
    /\ Len(emitted) >= 1
    /\ ecode = "failure"
    /\ pvf_result = "ffmpeg command failed"
    /\ main_pc = "panicked"

\* The arguments main rejects.
ArgsInvalid ==
    \/ args.target_width.some /\ args.target_width.t = U32(0)
    \/ args.target_height.some /\ args.target_height.t = U32(0)
    \/ ~args.target_width.some /\ ~args.target_height.some

\* C8: in a run with target_width Some(0), target_height Some(0) or both
\* absent, main does nothing but panic: no command is ever run, no child
\* exists, nothing is ever written to the encoder.
C8_ValidationBeforeSpawn ==
    (main_pc # "off" /\ ArgsInvalid) =>
        /\ main_pc \in {"main", "panicked"}
        /\ main_pc = "panicked" =>
              panic \in {"target_width cannot be zero",
                         "target_height cannot be zero",
                         "must set either target_width or target_height"}
        /\ commands = <<>>
        /\ child = "none"
        /\ encoder.data = <<>>

\* A run with neither dimension given has been rejected.
C8_Witness ==
    /\ ~args.target_width.some
    /\ ~args.target_height.some
    /\ main_pc = "panicked"
    /\ panic = "must set either target_width or target_height"
    /\ commands = <<>>

\* new_target_dimensions was given positive sizes.
PositiveSizes ==
    /\ width # U32(0)
    /\ height # U32(0)
    /\ char_width # U32(0)
    /\ char_height # U32(0)

\* h = floor(n / d)
IsFloor(h, n, d) ==
    /\ BigLeq(BigMul(d, h), n)
    /\ BigLess(n, BigAdd(BigMul(d, h), d))

\* C9 as stated: for positive sizes, new_target_dimensions returns, and
\* with a width w and no height what it returns is w and floor(srcHeight *
\* w * charHeight / (srcWidth * charWidth)); with both, the two as given.
C9_AsStated ==
    (main_pc \in {"get_video_fps", "panicked"} /\ PositiveSizes) =>
        /\ (args.target_width.some /\ ~args.target_height.some) =>
              /\ main_pc = "get_video_fps"
              /\ target_width = args.target_width.t
              /\ IsFloor(target_height,
                         BigMul(BigMul(height, args.target_width.t),
                                char_height),
                         BigMul(width, char_width))
        /\ (args.target_width.some /\ args.target_height.some) =>
              /\ main_pc = "get_video_fps"
              /\ target_width = args.target_width.t
              /\ target_height = args.target_height.t

\* C10 as stated: for positive sizes and exactly one target dimension
\* given, the other one, as new_target_dimensions returns it, is not 0.
C10_AsStated ==
    (main_pc = "get_video_fps" /\ PositiveSizes) =>
        /\ (args.target_width.some /\ ~args.target_height.some) =>
              target_height # U32(0)
        /\ (~args.target_width.some /\ args.target_height.some) =>
              target_width # U32(0)

\* floor(n / d), for d # 0
Floor(n, d) == BigTrim(BigDivMod(n, d).q)

\* C11 as stated: for positive sizes and a height h with no width, the
\* width new_target_dimensions returns is floor(srcWidth * h * charWidth /
\* (srcHeight * charHeight)), the width-only formula solved for the width;
\* and the width-only formula gives for that width a height that is not
\* above h.
C11_AsStated ==
    (main_pc = "get_video_fps" /\ PositiveSizes
       /\ ~args.target_width.some /\ args.target_height.some) =>
        /\ target_height = args.target_height.t
        /\ IsFloor(target_width,
                   BigMul(BigMul(width, args.target_height.t), char_width),
                   BigMul(height, char_height))
        /\ BigLeq(Floor(BigMul(BigMul(height, target_width), char_height),
                        BigMul(width, char_width)),
                  args.target_height.t)

\* Probe output that is not valid UTF-8, is not two comma-separated fields,
\* or has a field that is not a number.
MalformedDims(stdout) ==
    LET v == Split(Trim(stdout), ",")
    IN  \/ \E i \in 1..Len(stdout) : stdout[i] = BAD
        \/ Len(v) # 2
        \/ \E i \in 1..Len(v) : ~ParseU32(v[i]).ok

\* C12 as stated: get_video_dimensions never panics - main never ends with
\* a panic raised inside it, at line 46 or 61: when the probe's output is
\* malformed main ends at line 268, on the Err returned - and main goes on
\* with a width and a height only when they are the two numbers of a well
\* formed output.
C12_AsStated ==
    /\ panic \notin {"unwrap at 46", "unwrap at 61"}
    /\ main_pc = "new_target_dimensions" =>
          \E probe \in DimProbes :
              /\ probe.spawn
              /\ probe.success
              /\ ~MalformedDims(probe.stdout)
              /\ get_video_dimensions(probe).w = width
              /\ get_video_dimensions(probe).h = height

\* The header of the file: line 1 and line 2 as the decoder yields them.
HeaderLine1 == LinesNext(file.decoded)

HeaderLine2 == LinesNext(HeaderLine1.rest)

\* The input is empty, its text lacks line 1 or line 2, line 1 is not a
\* decimal number, or line 2 is not two unsigned integers with a space
\* between them.
BadHeader ==
    LET dims == Split(HeaderLine2.line, " ")
    IN  \/ file.empty
        \/ ~HeaderLine1.some \/ ~HeaderLine1.ok
        \/ ~HeaderLine2.some \/ ~HeaderLine2.ok
        \/ ~ParseF64(HeaderLine1.line).ok
        \/ Len(dims) # 2
        \/ \E i \in 1..Len(dims) : ~ParseU32(dims[i]).ok

\* C13 as stated: on an input with a bad header main_rs, once it has run,
\* has ended in an error - not by a return - and has displayed no frame.
C13_AsStated ==
    (pc \notin {"off", "start"} /\ BadHeader) =>
        /\ pc = "panicked"
        /\ Printed = <<>>

\* main has stopped, by returning or by a panic.
Stopped == main_pc \in {"exited", "panicked"}

\* C14 as stated: whenever main has stopped after it created the encoder
\* (and so gave it the header), the encoder has been flushed: what was
\* written to it has reached stdout.
C14_AsStated == (Stopped /\ encoder.data # <<>>) => encoder.flushed

\* C15 as stated: once process_video_file has returned after it started
\* ffmpeg, the child has been waited for.  (A return on a wait that failed
\* is left aside: the wait was made.)
C15_AsStated ==
    (pvf_result \notin {"none", "ffmpeg not started", "wait failed"}) =>
        child = "reaped"

\* The number of lines after the header that are read before the first one
\* whose read fails (all of them if none fails).
GoodPrefix(ls) ==
    IF AllOk(ls) THEN Len(ls)
    ELSE (CHOOSE i \in 1..Len(ls) :
              ~ls[i].ok /\ \A j \in 1..(i - 1) : ls[j].ok) - 1

\* A host call that reports an error: a tprint that is not a frame counter.
IsDiagnostic(e) == e.call = "tprint" /\ e.arg[1] = "error"

\* The lines of one frame: y, or 1 when the header's height is 0.
Rows == IF y = 0 THEN 1 ELSE y

\* C16: the step that reads a line whose read fails makes one tprint and
\* ends main_rs; from then on nothing happens: no line is read, no sleep
\* is asked for, nothing is printed.  The diagnostic is the only one and
\* the last host call; the lines read are those up to the failing one; the
\* frames displayed are the complete frames of the lines before it, the
\* lines left in the buffer are printed nowhere.
C16_LineReadErrorFatal ==
    /\ [](pc = "failed" =>
            LET ls == AllLines(PostHeader)
                n  == GoodPrefix(ls)
            IN  /\ n < Len(ls)
                /\ Len(AllLines(decoder)) = Len(ls) - (n + 1)
                /\ IsDiagnostic(host[Len(host)])
                /\ Len(SelectSeq(host, IsDiagnostic)) = 1
                /\ Len(Printed) = n \div Rows
                /\ \A k \in 1..Len(Printed) :
                      Printed[k].arg = FrameOf(ls, Rows, k - 1)
                /\ line_count = n % Rows
                /\ CountLF(buffer) = line_count)
    /\ [][/\ pc # "failed"
          /\ (pc = "loop" /\ LinesNext(decoder).some /\ ~LinesNext(decoder).ok)
                => (pc' = "failed"
                    /\ host' = host \o <<Call("tprint", <<"error">>)>>)]_vars

\* main_rs has ended on a line-read error, after one frame was displayed
\* and with a line of the next frame in the buffer.
C16_Witness ==
    /\ pc = "failed"
    /\ Len(Printed) = 1
    /\ line_count = 1
    /\ y = 2

\* The sleeps asked of the host so far.
Sleeps == CallsOf("sleep")

\* The number of sleep calls among the first i host calls.
SleepsBefore(i) == Len(SelectSeq(SubSeq(host, 1, i), LAMBDA e : e.call = "sleep"))

\* C17: the anchor is unset until the first complete frame and set from
\* then on; the step that sets it reads the clock into it, asks for no
\* sleep and goes on to display frame 0; no later step changes it; every
\* later complete frame asks for one sleep, so that before the print of
\* frame k there are exactly k sleeps, one for each of the frames 1..k.
C17_AnchorSetOnce ==
    /\ [](Playing =>
            /\ first_print.some <=>
                  (frame_count >= 1 \/ (pc = "display" /\ frame_count = 0))
            /\ Len(Sleeps) =
                  IF frame_count >= 1 /\ pc \in {"sleeping", "display"}
                  THEN frame_count
                  ELSE IF frame_count >= 1 THEN frame_count - 1 ELSE 0
            /\ \A i \in 1..Len(host) :
                  host[i].call = "print" =>
                      SleepsBefore(i) = Len(SelectSeq(SubSeq(host, 1, i - 1),
                                                LAMBDA e : e.call = "print")))
    /\ [][/\ first_print.some => first_print' = first_print
          /\ (~first_print.some /\ first_print'.some) =>
                /\ first_print'.t = clock'
                /\ frame_count = 0
                /\ host' = host
                /\ pc' = "display"
          /\ (pc = "pace" /\ first_print.some) =>
                /\ pc' = "sleeping"
                /\ Len(host') = Len(host) + 1
                /\ host'[Len(host')].call = "sleep"]_vars

\* Three frames were displayed, the clock was not 0 when the anchor was
\* set, and two sleeps were asked for.
C17_Witness ==
    /\ frame_count = 3
    /\ first_print.some
    /\ first_print.t > 0
    /\ Len(Sleeps) = 2

\* The host calls that belong to the display of a frame.
IsDisplayCall(e) ==
    \/ e.call \in {"clearLog", "print", "resizeTail"}
    \/ e.call = "tprint" /\ e.arg[1] = "frame"

\* The host's call i and the four after it are clear, print of a text of
\* Rows lines, the two resizes and the counter n, in that order.
FrameBlock(i, n) ==
    /\ i + 4 <= Len(host)
    /\ host[i].call = "clearLog"
    /\ host[i + 1].call = "print"
    /\ CountLF(host[i + 1].arg) = Rows
    /\ host[i + 2] = Call("resizeTail", <<TailWidth(x).val, TailHeightPlus(y)>>)
    /\ host[i + 3] = Call("resizeTail", <<TailWidth(x).val, TailHeight(y).val>>)
    /\ host[i + 4].call = "tprint"
    /\ host[i + 4].arg = <<"frame", n>>

\* C18: whenever main_rs has read its header, the display calls made so
\* far are those of frame_count frames; the calls of one frame are next to
\* each other in the host's record, in the order clear, print, resize,
\* resize, counter, with no sleep and no call of another frame between
\* them; the counter of the k-th frame displayed (k from 0) is k, and it
\* is frame_count as it stands when the frame's sleep is computed.
C18_AsStated ==
    (Playing \/ pc = "panicked at 130") =>
        /\ Len(SelectSeq(host, IsDisplayCall)) = 5 * frame_count
        /\ \A i \in 1..Len(host) :
              host[i].call = "clearLog" =>
                  FrameBlock(i, Len(SelectSeq(SubSeq(host, 1, i - 1),
                                             LAMBDA e : e.call = "print")))
        /\ pc = "sleeping" =>
              /\ frame_count = Len(Printed)
              /\ sleep_ms = SleepArg(first_print.t, Len(Printed), framerate,
                                     clock)

\* C19: a read of 0 bytes ends the loop of process_video_stream: it is the
\* last read, process_video_stream has returned Ok after it, and it added
\* no frame: the frames emitted are as many as the reads of a full frame
\* of more than 0 bytes.
C19_AsStated ==
    /\ \A i \in 1..Len(reads) :
          (reads[i].ok /\ reads[i].n = U32(0)) =>
              /\ i = Len(reads)
              /\ pvs_result = "Ok"
              /\ main_pc # "stream"
    /\ Len(emitted) =
          Len(SelectSeq(reads, LAMBDA r : r.ok /\ r.n = frame_bytes
                                               /\ r.n # U32(0)))

\* The divisor of line 200 (a width and no height given) or of line 203 (a
\* height and no width given), as the u32 the division uses.
Divisor ==
    IF args.target_width.some
    THEN U32Mul(width, char_width).val
    ELSE U32Mul(height, char_width).val

\* C20: once new_target_dimensions has been called with one target
\* dimension given, on arguments that passed the checks of main,
\* get_char_dims and get_video_dimensions, its divisor was not zero and it
\* did not panic on a division by zero.
C20_AsStated ==
    (main_pc \in {"get_video_fps", "panicked"}
       /\ (args.target_width.some # args.target_height.some)) =>
        /\ Divisor # U32(0)
        /\ panic # "attempt to divide by zero"

==========================================================================
